---- MODULE Spec2Model ----
(***************************************************************************)
(* Shift-roster store (malla de turnos): the SQLite tables, the wide-table *)
(* mapping of a month, the file snapshots of the store with their rotation *)
(* and the JSON import.  Names follow src/malla.py and src/database.py.    *)
(***************************************************************************)
EXTENDS Integers, Sequences, FiniteSets, TLC

\* ------------------------------------------------------------------ bounds
\* Every handler reads the wall clock once; the model stops at MaxNow.
MaxNow == 3
\* Values of the max_backups setting that an administrator has stored
\* (the configuration page offers 1..10).
MaxKeep == 2
\* Log rows up to which login and logout, which run between two ticks of
\* the clock, are followed.
MaxLogs == 3

\* ----------------------------------------------------------- basic values
\* SQL NULL / Python None / NaN of a text cell.
Null == "<null>"
\* Text values a grid cell or a stored code can hold.
CellValues == {Null, "", " ", "A", " A "}

\* str.strip() on the text values of the model.
Strip(s) == IF s = " A " THEN "A" ELSE IF s = " " THEN "" ELSE s

\* calendar.isleap
IsLeap(ano) == (ano % 4 = 0) /\ ((ano % 100 # 0) \/ (ano % 400 = 0))

\* calendar.monthrange(ano, mes)[1]
MonthRange(ano, mes) ==
    IF mes = 2 THEN (IF IsLeap(ano) THEN 29 ELSE 28)
    ELSE IF mes \in {4, 6, 9, 11} THEN 30 ELSE 31

\* The months the sessions of the model load: <<mes, ano>>.
Periodos == {<<2, 2024>>, <<4, 2025>>}

\* f'{dia}/{mes}/{ano}': the name of a day column of the wide table.
ColName(dia, mes, ano) == <<dia, mes, ano>>

\* -------------------------------------------------------------- the store
\* Rows written by inicializar_datos_bd (two of the sample employees, the
\* codes and users the model uses).
EmpleadosDefault ==
    { [id |-> 1, numero |-> 1, cedula |-> "1055272480"],
      [id |-> 2, numero |-> 2, cedula |-> "23755474"] }

CodigosDefault == {"A", "B", "VC"}

\* hashlib.sha256(password.encode()).hexdigest() on the passwords of the
\* model: one digest per password.
Sha256(password) ==
    CASE password = "admin123"    -> "sha256:admin123"
      [] password = "super123"    -> "sha256:super123"
      [] password = "empleado123" -> "sha256:empleado123"
      [] password = "temp123"     -> "sha256:temp123"
      [] OTHER                    -> "sha256:other"

UsuariosDefault ==
    { [username |-> "admin", password_hash |-> Sha256("admin123"), role |-> "admin"],
      [username |-> "supervisor", password_hash |-> Sha256("super123"), role |-> "supervisor"],
      [username |-> "empleado", password_hash |-> Sha256("empleado123"), role |-> "empleado"] }

\* The tables of a freshly initialised database file; max_backups is the
\* stored setting, seq_empleados the sqlite_sequence entry of empleados
\* (id INTEGER PRIMARY KEY AUTOINCREMENT): the largest id ever inserted.
TablasIniciales(maxb) ==
    [ empleados     |-> EmpleadosDefault,
      codigos_turno |-> CodigosDefault,
      usuarios      |-> UsuariosDefault,
      malla_turnos  |-> {},
      configuracion |-> [max_backups |-> maxb, auto_backup |-> TRUE],
      logs          |-> 0,
      seq_empleados |-> Cardinality(EmpleadosDefault) ]

\* SELECT * FROM empleados ORDER BY numero, as a sequence of rows (rows with
\* equal numero in id order).
RECURSIVE OrdenarPorNumero(_)
OrdenarPorNumero(S) ==
    IF S = {} THEN << >>
    ELSE LET e == CHOOSE x \in S : \A y \in S :
                      (x.numero < y.numero) \/ (x.numero = y.numero /\ x.id <= y.id)
         IN  <<e>> \o OrdenarPorNumero(S \ {e})

get_empleados(t) == OrdenarPorNumero(t.empleados)

\* The UNIQUE(empleado_id, mes, ano, dia) key of a malla_turnos row.
Clave(r) == <<r.empleado_id, r.mes, r.ano, r.dia>>

\* The rows of malla_turnos with a given key.
FilasDe(malla, emp, mes, ano, dia) ==
    { r \in malla : Clave(r) = <<emp, mes, ano, dia>> }

\* ------------------------------------------------- wide table of a month
\* turnos_dict[emp_id] of get_malla_turnos: the rows the LEFT JOIN yields
\* for one employee and month (a row with dia 0 is skipped by "if dia").
TurnosDict(malla, emp_id, mes, ano) ==
    { r \in malla : r.empleado_id = emp_id /\ r.mes = mes /\ r.ano = ano /\ r.dia # 0 }

\* One cell of the grid: the code of the matching row, "" when there is no
\* row or its code is NULL or empty (codigo if codigo else "").
Celda(turnos, dia) ==
    LET filas == { r \in turnos : r.dia = dia }
    IN  IF filas = {} THEN ""
        ELSE LET r == CHOOSE x \in filas : TRUE
             IN  IF r.codigo_turno \in {Null, ""} THEN "" ELSE r.codigo_turno

\* The row of the grid for one employee.
FilaDeGrid(malla, emp, mes, ano) ==
    LET turnos == TurnosDict(malla, emp.id, mes, ano)
    IN  [ CC   |-> emp.cedula,
          N    |-> emp.numero,
          dias |-> [ c \in { ColName(d, mes, ano) : d \in 1..MonthRange(ano, mes) } |->
                       Celda(turnos, c[1]) ] ]

\* get_malla_turnos(mes, ano) of malla.py: one row per employee in numero
\* order; the ID column is dropped, the employee is named by CC.
get_malla_turnos(t, mes, ano) ==
    LET emps == get_empleados(t)
    IN  [ i \in 1..Len(emps) |-> FilaDeGrid(t.malla_turnos, emps[i], mes, ano) ]

\* The value guardar_malla_turnos stores for a cell: NULL for a missing,
\* NaN or blank cell, the stripped text otherwise.
CodigoValor(codigo) ==
    IF codigo = Null \/ Strip(codigo) = "" THEN Null ELSE Strip(codigo)

\* id_por_cedula of guardar_malla_turnos: cedula -> id (cedula is UNIQUE).
IdPorCedula(t, cedula) ==
    LET ids == { e.id : e \in { x \in t.empleados : x.cedula = cedula } }
    IN  IF ids = {} THEN 0 ELSE CHOOSE i \in ids : TRUE

\* Mutant of UpsertsDeFila: only the cells that hold a code are written.
UpsertsSoloConCodigo(t, row, mes, ano) ==
    LET emp_id == IdPorCedula(t, row.CC)
    IN  IF row.CC = "" \/ emp_id = 0 THEN {}
        ELSE { [ empleado_id |-> emp_id, mes |-> mes, ano |-> ano, dia |-> d,
                 codigo_turno |-> CodigoValor(row.dias[ColName(d, mes, ano)]) ] :
               d \in { x \in 1..MonthRange(ano, mes) :
                         /\ ColName(x, mes, ano) \in DOMAIN row.dias
                         /\ CodigoValor(row.dias[ColName(x, mes, ano)]) # Null } }

\* The INSERT OR REPLACE statements one grid row produces, as rows.
UpsertsDeFila(t, row, mes, ano) ==
    LET emp_id == IdPorCedula(t, row.CC)
    IN  IF row.CC = "" \/ emp_id = 0 THEN {}
        ELSE { [ empleado_id |-> emp_id, mes |-> mes, ano |-> ano, dia |-> d,
                 codigo_turno |-> CodigoValor(row.dias[ColName(d, mes, ano)]) ] :
               d \in { x \in 1..MonthRange(ano, mes) :
                         ColName(x, mes, ano) \in DOMAIN row.dias } }

\* Mutant of InsertOrReplace: a plain INSERT into a table without the
\* UNIQUE constraint.
InsertSinReemplazo(malla, nuevas) == malla \cup nuevas

\* Mutant of InsertOrReplace: the old row is deleted and the new one is
\* inserted only when no row held the key.
InsertAlterno(malla, nuevas) ==
    LET claves  == { Clave(n) : n \in nuevas }
        usadas  == { Clave(r) : r \in malla }
    IN  { r \in malla : Clave(r) \notin claves }
        \cup { n \in nuevas : Clave(n) \notin usadas }

\* INSERT OR REPLACE of a set of rows with pairwise distinct keys: the rows
\* that hold one of the keys are deleted, the new rows inserted.
InsertOrReplace(malla, nuevas) ==
    LET claves == { Clave(n) : n \in nuevas }
    IN  { r \in malla : Clave(r) \notin claves } \cup nuevas

\* Mutant of GuardarFilas: the loop ends at the first row whose cedula is
\* unknown (break instead of continue).
RECURSIVE GuardarFilasHastaDesconocida(_, _, _, _, _, _)
GuardarFilasHastaDesconocida(t, malla, df, i, mes, ano) ==
    IF i > Len(df) \/ IdPorCedula(t, df[i].CC) = 0 THEN malla
    ELSE GuardarFilasHastaDesconocida(
             t, InsertOrReplace(malla, UpsertsDeFila(t, df[i], mes, ano)),
             df, i + 1, mes, ano)

\* The loop of guardar_malla_turnos over the rows of df_malla, from row i on.
RECURSIVE GuardarFilas(_, _, _, _, _, _)
GuardarFilas(t, malla, df, i, mes, ano) ==
    IF i > Len(df) THEN malla
    ELSE GuardarFilas(t, InsertOrReplace(malla, UpsertsDeFila(t, df[i], mes, ano)),
                      df, i + 1, mes, ano)

\* Mutant of guardar_malla_turnos: the rows of the month are deleted
\* before the grid is written.
guardar_malla_turnos_reemplazando(t, df, mes, ano) ==
    [ t EXCEPT !.malla_turnos =
        GuardarFilas(t, { r \in @ : r.mes # mes \/ r.ano # ano }, df, 1, mes, ano) ]

\* guardar_malla_turnos(df_malla, mes, ano) of malla.py: the tables after
\* the commit.
guardar_malla_turnos(t, df, mes, ano) ==
    [ t EXCEPT !.malla_turnos = GuardarFilas(t, t.malla_turnos, df, 1, mes, ano) ]

\* cambios_guardados: one per executed INSERT OR REPLACE.
RECURSIVE CambiosGuardados(_, _, _, _, _)
CambiosGuardados(t, df, i, mes, ano) ==
    IF i > Len(df) THEN 0
    ELSE Cardinality(UpsertsDeFila(t, df[i], mes, ano))
         + CambiosGuardados(t, df, i + 1, mes, ano)

\* guardar_malla_turnos(df, mes, ano) of database.py: every column whose
\* name has a "/" is a day column, its day is the text before the first
\* "/", and the stored value is row[col] or None.
RECURSIVE db_GuardarFilas(_, _, _, _, _, _)
db_GuardarFilas(t, malla, df, i, mes, ano) ==
    IF i > Len(df) THEN malla
    ELSE LET emp_id == IdPorCedula(t, df[i].CC)
             nuevas == IF emp_id = 0 THEN {}
                       ELSE { [ empleado_id |-> emp_id, mes |-> mes, ano |-> ano,
                                dia |-> c[1],
                                codigo_turno |-> IF df[i].dias[c] \in {Null, ""}
                                                 THEN Null ELSE df[i].dias[c] ] :
                              c \in DOMAIN df[i].dias }
         IN  db_GuardarFilas(t, InsertOrReplace(malla, nuevas), df, i + 1, mes, ano)

db_guardar_malla_turnos(t, df, mes, ano) ==
    [ t EXCEPT !.malla_turnos = db_GuardarFilas(t, t.malla_turnos, df, 1, mes, ano) ]

\* dias of get_malla_turnos of database.py: 31, 30 for the months 4, 6, 9
\* and 11, 28 for month 2 whatever the year.
db_dias(mes) ==
    IF mes = 2 THEN 28 ELSE IF mes \in {4, 6, 9, 11} THEN 30 ELSE 31

\* get_malla_turnos(mes, ano) of database.py: one row per employee in
\* numero order with the columns 1..dias set to ""; every stored row of the
\* month whose employee is in the table is then written with
\* base.loc[idx, col] = codigo or "", which adds the column of a day beyond
\* dias (NaN in the rows it is not written to).
db_get_malla_turnos(t, mes, ano) ==
    LET emps  == get_empleados(t)
        filas == { r \in t.malla_turnos :
                     /\ r.mes = mes /\ r.ano = ano
                     /\ \E e \in t.empleados : e.id = r.empleado_id }
        cols  == (1..db_dias(mes)) \cup { r.dia : r \in filas }
    IN  [ i \in 1..Len(emps) |->
            [ CC   |-> emps[i].cedula,
              N    |-> emps[i].numero,
              dias |-> [ c \in { ColName(d, mes, ano) : d \in cols } |->
                         LET f == { r \in filas :
                                      r.empleado_id = emps[i].id /\ r.dia = c[1] }
                         IN  IF f = {}
                             THEN (IF c[1] \in 1..db_dias(mes) THEN "" ELSE Null)
                             ELSE LET r == CHOOSE x \in f : TRUE
                                  IN  IF r.codigo_turno \in {Null, ""}
                                      THEN "" ELSE r.codigo_turno ] ] ]

\* get_turnos_empleado_mes(empleado_id, mes, ano) of malla.py: {} for an
\* unknown employee, otherwise every day of the month plus the day of every
\* stored row.
get_turnos_empleado_mes(t, empleado_id, mes, ano) ==
    LET filas == { r \in t.malla_turnos :
                     r.empleado_id = empleado_id /\ r.mes = mes /\ r.ano = ano }
        dias  == (1..MonthRange(ano, mes)) \cup { r.dia : r \in filas }
    IN  IF \A e \in t.empleados : e.id # empleado_id THEN << >>
        ELSE [ d \in dias |->
                 LET f == { r \in filas : r.dia = d }
                 IN  IF f = {} THEN ""
                     ELSE LET c == (CHOOSE r \in f : TRUE).codigo_turno
                          IN  IF c # Null /\ Strip(c) # "" THEN Strip(c) ELSE "" ]

\* get_turnos_empleado_mes of database.py: only the stored rows.
db_get_turnos_empleado_mes(t, empleado_id, mes, ano) ==
    LET filas == { r \in t.malla_turnos :
                     r.empleado_id = empleado_id /\ r.mes = mes /\ r.ano = ano }
    IN  [ d \in { r.dia : r \in filas } |->
            (CHOOSE r \in filas : r.dia = d).codigo_turno ]

\* ------------------------------------------------------ files and session
VARIABLES
    cloud,     \* IS_STREAMLIT_CLOUD
    now,       \* the wall clock: one tick per handler of the store and its
               \* snapshots; the handlers of the session itself (load of a
               \* month, login, logout, navigation) run between two ticks
    db,        \* the file DB_NAME: [exists, tablas, mtime]; mtime counts
               \* half ticks
    backups,   \* BACKUP_DIR/turnos_backup_<name>.db: set of [name, tablas, mtime]
    rescues,   \* BACKUP_DIR/rescue_<name>_rescue.db: set of [name, tablas, mtime]
    session,   \* st.session_state
    pc,        \* position of the running handler
    call       \* the running or last handler: its name, inputs, the file
               \* DB_NAME as it was when the handler started, its result

vars == <<cloud, now, db, backups, rescues, session, pc, call>>

SinArchivo == [exists |-> FALSE, tablas |-> TablasIniciales(0), mtime |-> 0]

\* get_codigos_turno: the stored codes plus the "" entry (Sin Asignar).
get_codigos_turno(t) == t.codigos_turno \cup {""}

\* get_configuracion: every key of the model is stored, so the built-in
\* defaults are all overridden.
get_configuracion(t) == t.configuracion

\* The three caches restaurar_backup, importar_backup_json and
\* inicializar_session_state load from the store.
CachesDe(t) ==
    [ empleados_df  |-> get_empleados(t),
      codigos_turno |-> get_codigos_turno(t),
      configuracion |-> get_configuracion(t) ]

\* registrar_log of malla.py: INSERT INTO logs and commit.
registrar_log(t) == [ t EXCEPT !.logs = @ + 1 ]

\* max_backups as crear_backup_automatico reads it:
\* st.session_state.configuracion.get('max_backups', 5), 5 without the cache.
MaxBackupsDe(ss) ==
    IF ss.app_initialized THEN ss.configuracion.max_backups ELSE 5

\* Mutant of Rotaciones: the list is sorted oldest first, so the newest
\* files are the ones deleted.
RotacionesAntiguos(dir, max_backups) ==
    IF Cardinality(dir) > max_backups
    THEN { K \in SUBSET dir :
             /\ Cardinality(K) = max_backups
             /\ \A k \in K : \A d \in dir \ K : k.mtime <= d.mtime }
    ELSE { dir }

\* backups[max_backups:] of the list sorted by os.path.getmtime, newest
\* first: the directories that can remain.  Files with equal mtime are in
\* directory order, which is not determined.
Rotaciones(dir, max_backups) ==
    IF Cardinality(dir) > max_backups
    THEN { K \in SUBSET dir :
             /\ Cardinality(K) = max_backups
             /\ \A k \in K : \A d \in dir \ K : k.mtime >= d.mtime }
    ELSE { dir }

\* Mutant of crear_backup_automatico: the copy is made without looking
\* whether DB_NAME exists.
crear_backup_sin_comprobar(f, dir, ts, enCloud, ss) ==
    LET backup_file == [name |-> ts, tablas |-> f.tablas, mtime |-> f.mtime]
        con == { b \in dir : b.name # ts } \cup { backup_file }
    IN  IF enCloud THEN Rotaciones(con, MaxBackupsDe(ss)) ELSE { con }

\* crear_backup_automatico at time ts: the backup directories it can leave.
\* shutil.copy2 copies the content and the mtime of DB_NAME; a file of the
\* same name is overwritten; the rotation runs only on Streamlit Cloud.
crear_backup_automatico(f, dir, ts, enCloud, ss) ==
    IF f.exists
    THEN LET backup_file == [name |-> ts, tablas |-> f.tablas, mtime |-> f.mtime]
             con == { b \in dir : b.name # ts } \cup { backup_file }
         IN  IF enCloud THEN Rotaciones(con, MaxBackupsDe(ss)) ELSE { con }
    ELSE { dir }

\* A commit at time ts of new table contents.
Commit(f, t, ts) == [exists |-> TRUE, tablas |-> t, mtime |-> 2 * ts]

\* A commit of a handler that runs between the ticks ts and ts + 1: later
\* than every file written up to tick ts, earlier than those of tick ts + 1.
CommitEntreTicks(f, t, ts) == [exists |-> TRUE, tablas |-> t, mtime |-> 2 * ts + 1]

\* The unauthenticated st.session_state.auth.
SinAutenticar == [is_authenticated |-> FALSE, username |-> Null, role |-> Null]

\* The defaults inicializar_session_state puts into a new session on the
\* store t: the three caches, nobody logged in, the page "malla", no month
\* loaded (an empty DataFrame), the month of the clock, no employee
\* (empleado_actual is << >> for None, <<row>> for the row of an employee).
SesionNueva(t) ==
    [ app_initialized |-> TRUE,
      auth            |-> SinAutenticar,
      current_page    |-> "malla",
      malla_actual    |-> << >>,
      mes_actual      |-> 2,
      ano_actual      |-> 2024,
      empleado_actual |-> << >> ] @@ CachesDe(t)

Init ==
    /\ cloud \in BOOLEAN
    /\ now = 0
    /\ db = SinArchivo
    /\ backups = {}
    /\ rescues = {}
    /\ session = [app_initialized |-> FALSE]
    /\ pc = "idle"
    /\ call = [op |-> "none"]

\* A handler starts: no other handler is running and the clock ticks.
Inicio ==
    /\ pc = "idle"
    /\ now < MaxNow
    /\ now' = now + 1

\* inicializar_datos_bd: the default rows when usuarios is empty.
inicializar_datos_bd(f) ==
    IF ~f.exists THEN TablasIniciales(5)
    ELSE IF f.tablas.usuarios = {}
         THEN [ f.tablas EXCEPT
                  !.usuarios = UsuariosDefault,
                  !.codigos_turno = @ \cup CodigosDefault,
                  !.empleados = @ \cup EmpleadosDefault ]
         ELSE f.tablas

\* inicializar_session_state of a new session: init_db and the default
\* rows, on Streamlit Cloud the newest backup copied over DB_NAME, the
\* caches, and a first backup when the directory has none.
InicializarSessionState ==
    /\ Inicio
    /\ \/ ~db.exists
       \/ db.tablas.usuarios # {}
       \/ \A e \in EmpleadosDefault : \A x \in db.tablas.empleados :
             x.cedula # e.cedula
    /\ LET sembrada == IF db.exists /\ inicializar_datos_bd(db) = db.tablas
                       THEN db
                       ELSE Commit(db, inicializar_datos_bd(db), now')
       IN  \E f \in IF cloud /\ backups # {}
                    THEN { [exists |-> TRUE, tablas |-> b.tablas, mtime |-> b.mtime] :
                           b \in { x \in backups : \A y \in backups : x.mtime >= y.mtime } }
                    ELSE { sembrada } :
             /\ db' = f
             /\ session' = SesionNueva(f.tablas)
             /\ backups' \in IF backups = {}
                            THEN crear_backup_automatico(f, backups, now', cloud, session')
                            ELSE { backups }
             /\ call' = [op |-> "inicializar", pre |-> db]
    /\ UNCHANGED <<cloud, rescues, pc>>

\* ---------------------------------------------------------- roster saving
\* The grid of a month with the cell (row i, day d) edited to v.
Editar(df, i, d, mes, ano, v) ==
    [ df EXCEPT ![i].dias[ColName(d, mes, ano)] = v ]

\* A grid row typed in for a cedula no employee has.
FilaDesconocida(mes, ano, v) ==
    [ CC |-> "999", N |-> 0,
      dias |-> [ c \in { ColName(d, mes, ano) : d \in 1..MonthRange(ano, mes) } |-> v ] ]

\* The grids a session hands to guardar_malla_turnos for a month: the
\* loaded grid as it is, with the cell of the first day of a row retyped,
\* with a code typed into the last day of a row, with a row of an unknown
\* cedula as its last or first row, or cut down to its first row.
GridsEditados(t, mes, ano) ==
    LET df == get_malla_turnos(t, mes, ano)
    IN  { df, Append(df, FilaDesconocida(mes, ano, "B")),
          <<FilaDesconocida(mes, ano, "B")>> \o df }
        \cup { <<df[i]>> : i \in {1} \cap DOMAIN df }
        \cup { Editar(df, i, 1, mes, ano, v) : i \in 1..Len(df), v \in CellValues }
        \cup { Editar(df, i, MonthRange(ano, mes), mes, ano, "A") : i \in 1..Len(df) }

\* The month the sessions of the model load, edit and save: <<mes, ano>>.
PeriodosEditados == {<<2, 2024>>}

\* "Cargar Malla" of pagina_malla: the grid of the chosen month becomes
\* st.session_state.malla_actual, and registrar_log adds its row.  The model
\* follows one load between two ticks of the clock.
CargarMalla ==
    /\ pc = "idle"
    /\ session.app_initialized
    /\ db.mtime <= 2 * now
    /\ \E p \in PeriodosEditados :
         /\ session' = [ session EXCEPT
                           !.malla_actual = get_malla_turnos(db.tablas, p[1], p[2]),
                           !.mes_actual = p[1],
                           !.ano_actual = p[2] ]
         /\ call' = [op |-> "cargar_malla", pre |-> db, mes |-> p[1], ano |-> p[2]]
    /\ db' = CommitEntreTicks(db, registrar_log(db.tablas), now)
    /\ UNCHANGED <<cloud, now, backups, rescues, pc>>

\* registrar_log of database.py: the INSERT runs on a new connection and the
\* function ends there; conn.commit() and conn.close() stand after the
\* return of check_database, defined inside it, and are never run. The
\* connection is dropped with the row uncommitted and the row is rolled back.
database_registrar_log(t) == t

\* A call of registrar_log of database.py on the store.
DatabaseRegistrarLog ==
    /\ pc = "idle"
    /\ db.exists
    /\ call.op # "database_registrar_log"
    /\ db' = [ db EXCEPT !.tablas = database_registrar_log(@) ]
    /\ call' = [op |-> "database_registrar_log", pre |-> db]
    /\ UNCHANGED <<cloud, now, backups, rescues, session, pc>>

\* guardar_malla_turnos(df_malla, mes, ano) called by a session.
GuardarMallaTurnos ==
    /\ Inicio
    /\ session.app_initialized
    /\ \E p \in PeriodosEditados : \E df \in GridsEditados(db.tablas, p[1], p[2]) :
         LET t == guardar_malla_turnos(db.tablas, df, p[1], p[2])
             cambios_guardados == CambiosGuardados(db.tablas, df, 1, p[1], p[2])
         IN  /\ db' = IF cambios_guardados > 0 THEN Commit(db, t, now') ELSE db
             /\ call' = [ op |-> "guardar_malla", pre |-> db, df |-> df,
                          mes |-> p[1], ano |-> p[2],
                          resultado |-> cambios_guardados ]
    /\ UNCHANGED <<cloud, backups, rescues, session, pc>>

\* Mutant of ExceptSinCommit: the connection commits every statement as it
\* is executed.
ExceptConAutocommit(f, pendiente, ts) == Commit(f, pendiente, ts)

\* The except branch of guardar_malla_turnos at time ts, after the
\* statements that made the tables pendiente inside the open transaction:
\* conn.commit() was not reached; no other connection sees the rows of the
\* open transaction, and SQLite rolls it back when the connection object is
\* collected.
ExceptSinCommit(f, pendiente, ts) == f

\* guardar_malla_turnos when the statement of row i raises: the rows before
\* i were upserted in the open transaction, the except branch returns 0.
guardar_malla_turnos_except(f, df, mes, ano, i, ts) ==
    LET pendiente == [ f.tablas EXCEPT !.malla_turnos =
                         GuardarFilas(f.tablas, @, SubSeq(df, 1, i - 1), 1, mes, ano) ]
    IN  [ resultado |-> 0, db |-> ExceptSinCommit(f, pendiente, ts) ]

\* The grids whose save the model follows into the except branch: the
\* loaded grid with the first day of its first row retyped.
GridsConError(t, mes, ano) ==
    LET df == get_malla_turnos(t, mes, ano)
    IN  { Editar(df, 1, 1, mes, ano, v) : v \in {"A", Null} }

\* guardar_malla_turnos(df_malla, mes, ano) called by a session, with an
\* sqlite3 error raised at the statement of row i.
GuardarMallaTurnosExcept ==
    /\ Inicio
    /\ session.app_initialized
    /\ \E p \in PeriodosEditados : \E df \in GridsConError(db.tablas, p[1], p[2]) :
         \E i \in 1..Len(df) :
            LET r == guardar_malla_turnos_except(db, df, p[1], p[2], i, now')
            IN  /\ db' = r.db
                /\ call' = [ op |-> "guardar_malla_except", pre |-> db, df |-> df,
                             mes |-> p[1], ano |-> p[2], i |-> i,
                             resultado |-> r.resultado ]
    /\ UNCHANGED <<cloud, backups, rescues, session, pc>>

\* guardar_malla_turnos_con_backup(df_malla, mes, ano): the snapshot of
\* DB_NAME when auto_backup is set in the cached configuration, then
\* guardar_malla_turnos.
GuardarMallaTurnosConBackup ==
    /\ Inicio
    /\ session.app_initialized
    /\ backups' \in IF session.configuracion.auto_backup
                    THEN crear_backup_automatico(db, backups, now', cloud, session)
                    ELSE { backups }
    /\ \E p \in PeriodosEditados : \E df \in GridsEditados(db.tablas, p[1], p[2]) :
         LET t == guardar_malla_turnos(db.tablas, df, p[1], p[2])
             resultado == CambiosGuardados(db.tablas, df, 1, p[1], p[2])
         IN  /\ db' = IF resultado > 0 THEN Commit(db, t, now') ELSE db
             /\ call' = [ op |-> "guardar_malla_con_backup", pre |-> db, df |-> df,
                          mes |-> p[1], ano |-> p[2], resultado |-> resultado ]
    /\ UNCHANGED <<cloud, rescues, session, pc>>

\* ------------------------------------------------------------- snapshots
\* crear_backup_automatico() on its own: "Crear Backup Ahora" of
\* pagina_backup, or a caller that runs before DB_NAME and the session
\* state exist (the function checks for both).
CrearBackup ==
    /\ Inicio
    /\ backups' \in crear_backup_automatico(db, backups, now', cloud, session)
    /\ call' = [ op |-> "crear_backup", pre |-> db, antes |-> backups,
                 backup_file |-> IF db.exists THEN now' ELSE 0 ]
    /\ UNCHANGED <<cloud, db, rescues, session, pc>>

\* The names a session can pass to restaurar_backup: the listed snapshots
\* and the name of a file that is no longer there.
NombresDeBackup == { b.name : b \in backups } \cup {0}

\* Mutant of CopiaDeRescate: no rescue copy is written.
CopiaDeRescateOmitida(f, dir, ts) == dir

\* The rescue copy restaurar_backup makes at time ts: shutil.copy2 of
\* DB_NAME when it exists.
CopiaDeRescate(f, dir, ts) ==
    IF f.exists
    THEN { r \in dir : r.name # ts }
         \cup { [name |-> ts, tablas |-> f.tablas, mtime |-> f.mtime] }
    ELSE dir

\* Mutant of CopiarBackup: DB_NAME is removed before the source is opened.
CopiarBackupBorrando(f, dir, backup_file, ts) ==
    LET origen == { b \in dir : b.name = backup_file }
    IN  IF origen = {}
        THEN [ok |-> FALSE, db |-> SinArchivo]
        ELSE [ok |-> TRUE,
              db |-> Commit(f, registrar_log((CHOOSE b \in origen : TRUE).tablas), ts)]

\* shutil.copy2(backup_file, DB_NAME) and the log row of restaurar_backup at
\* time ts.  A missing source raises FileNotFoundError before DB_NAME is
\* opened for writing.
CopiarBackup(f, dir, backup_file, ts) ==
    LET origen == { b \in dir : b.name = backup_file }
    IN  IF origen = {}
        THEN [ok |-> FALSE, db |-> f]
        ELSE [ok |-> TRUE,
              db |-> Commit(f, registrar_log((CHOOSE b \in origen : TRUE).tablas), ts)]

\* restaurar_backup(backup_file), first part: the rescue copy of DB_NAME.
RestaurarBackup ==
    /\ Inicio
    /\ session.app_initialized
    /\ \E n \in NombresDeBackup :
         call' = [op |-> "restaurar_backup", pre |-> db, backup_file |-> n]
    /\ rescues' = CopiaDeRescate(db, rescues, now')
    /\ pc' = "restaurar_copia"
    /\ UNCHANGED <<cloud, db, backups, session>>

\* restaurar_backup, second part: the copy over DB_NAME, the three caches
\* and the log row; the except branch when the copy raises.
RestaurarCopia ==
    /\ pc = "restaurar_copia"
    /\ pc' = "idle"
    /\ LET r == CopiarBackup(db, backups, call.backup_file, now)
       IN  /\ db' = r.db
           /\ call' = call @@ [ok |-> r.ok]
           /\ session' = IF r.ok
                         THEN CachesDe(r.db.tablas) @@ session
                         ELSE session
    /\ UNCHANGED <<cloud, now, backups, rescues>>

\* ------------------------------------------------------------ JSON import
\* The uploaded documents of the model.  llaves are the keys present in the
\* document; a field a JSON object lacks reads as Null (dict.get).
DocBase ==
    [ llaves        |-> {"empleados", "codigos_turno", "usuarios", "malla_turnos",
                         "configuracion"},
      empleados     |-> << [id |-> 1, numero |-> 1, cedula |-> "1055272480"],
                           [id |-> 3, numero |-> 2, cedula |-> "52000111"] >>,
      codigos_turno |-> << "A", "N" >>,
      usuarios      |-> << [username |-> "admin", password_hash |-> Sha256("admin123"),
                            role |-> "admin"],
                           [username |-> "ana", password_hash |-> Null,
                            role |-> "supervisor"],
                           [username |-> "eva", password_hash |-> "",
                            role |-> "empleado"] >>,
      malla_turnos  |-> << [empleado_id |-> 1, mes |-> 2, ano |-> 2024, dia |-> 1,
                            codigo_turno |-> "B"],
                           [empleado_id |-> 3, mes |-> 2, ano |-> 2024, dia |-> 29,
                            codigo_turno |-> Null] >>,
      configuracion |-> [max_backups |-> 1, auto_backup |-> FALSE] ]

\* Two rows of malla_turnos with the same (empleado_id, mes, ano, dia).
DocClaveDuplicada ==
    [ DocBase EXCEPT !.malla_turnos =
        Append(@, [empleado_id |-> 1, mes |-> 2, ano |-> 2024, dia |-> 1,
                   codigo_turno |-> "A"]) ]

\* A user entry without "role" (NOT NULL in usuarios).
DocSinRol ==
    [ DocBase EXCEPT !.usuarios =
        Append(@, [username |-> "luis", password_hash |-> Null, role |-> Null]) ]

\* Rows whose day is not a day of their month, and a row of an employee the
\* document does not contain.
DocDiaFueraDeMes ==
    [ DocBase EXCEPT !.malla_turnos =
        @ \o << [empleado_id |-> 1, mes |-> 2, ano |-> 2024, dia |-> 30,
                 codigo_turno |-> "A"],
                [empleado_id |-> 1, mes |-> 4, ano |-> 2025, dia |-> 0,
                 codigo_turno |-> "A"],
                [empleado_id |-> 9, mes |-> 4, ano |-> 2025, dia |-> 2,
                 codigo_turno |-> "B"] >> ]

\* A document without the "empleados" and "malla_turnos" keys.
DocSinEmpleados ==
    [ DocBase EXCEPT !.llaves = @ \ {"empleados", "malla_turnos"} ]

\* A user whose role is not one of ROLES, without a hash.
DocRolDesconocido ==
    [ DocBase EXCEPT !.usuarios =
        Append(@, [username |-> "luis", password_hash |-> Null, role |-> "gerente"]) ]

\* An assignment whose code is stored with surrounding blanks.
DocCodigoConEspacios ==
    [ DocBase EXCEPT !.malla_turnos =
        Append(@, [empleado_id |-> 1, mes |-> 2, ano |-> 2024, dia |-> 2,
                   codigo_turno |-> " A "]) ]

Documentos ==
    { DocBase, DocClaveDuplicada, DocSinRol, DocDiaFueraDeMes, DocSinEmpleados,
      DocCodigoConEspacios, DocRolDesconocido }

\* The largest number of a non-empty set of numbers.
Maximo(S) == CHOOSE x \in S : \A y \in S : x >= y

\* datos[k] when 'k' in datos, no entries otherwise.
Entradas(datos, k) == IF k \in datos.llaves THEN datos[k] ELSE << >>

Rango(seq) == { seq[i] : i \in 1..Len(seq) }

\* A sequence of plain INSERTs violates no PRIMARY KEY or UNIQUE constraint:
\* the keys of the entries are pairwise distinct.
SinDuplicados(seq, Llave(_)) ==
    \A i \in 1..Len(seq) : \A j \in 1..Len(seq) :
        Llave(seq[i]) = Llave(seq[j]) => i = j

LlaveId(e) == e.id
LlaveCedula(e) == e.cedula
LlaveTexto(c) == c
LlaveUsername(u) == u.username

\* Every INSERT of importar_backup_json succeeds on the emptied tables: no
\* NOT NULL, PRIMARY KEY or UNIQUE constraint fails.
Insertable(datos) ==
    /\ SinDuplicados(Entradas(datos, "empleados"), LlaveId)
    /\ SinDuplicados(Entradas(datos, "empleados"), LlaveCedula)
    /\ \A e \in Rango(Entradas(datos, "empleados")) : e.cedula # Null
    /\ SinDuplicados(Entradas(datos, "codigos_turno"), LlaveTexto)
    /\ SinDuplicados(Entradas(datos, "usuarios"), LlaveUsername)
    /\ \A u \in Rango(Entradas(datos, "usuarios")) :
          u.username # Null /\ u.role # Null
    /\ SinDuplicados(Entradas(datos, "malla_turnos"), Clave)

\* Mutant of UsuarioImportado: the temporary hash is derived from the
\* username, so two users without a hash get different ones.
UsuarioImportadoPorNombre(user) ==
    [ user EXCEPT !.password_hash =
        IF @ = Null \/ @ = "" THEN Sha256(user.username) ELSE @ ]

\* The user row importar_backup_json inserts for an entry: the temporary
\* hash when the entry has none.
UsuarioImportado(user) ==
    [ user EXCEPT !.password_hash =
        IF @ = Null \/ @ = "" THEN Sha256("temp123") ELSE @ ]

\* The tables after the DELETEs and INSERTs of importar_backup_json;
\* configuracion and logs are not written.
TablasImportadas(t, datos) ==
    [ t EXCEPT
        !.empleados     = Rango(Entradas(datos, "empleados")),
        !.codigos_turno = Rango(Entradas(datos, "codigos_turno")),
        !.usuarios      = { UsuarioImportado(u) : u \in Rango(Entradas(datos, "usuarios")) },
        !.malla_turnos  = Rango(Entradas(datos, "malla_turnos")),
        !.seq_empleados = Maximo({@} \cup { e.id : e \in Rango(Entradas(datos, "empleados")) }) ]

\* The rows of a table as the list of records pandas reads them in.
RECURSIVE Registros(_)
Registros(S) ==
    IF S = {} THEN << >>
    ELSE LET r == CHOOSE x \in S : TRUE
         IN  <<r>> \o Registros(S \ {r})

\* Mutant of exportar_backup_json: the users are exported without their
\* password hashes.
exportar_sin_hash(t) ==
    [ llaves        |-> {"empleados", "codigos_turno", "usuarios", "malla_turnos",
                         "configuracion"},
      empleados     |-> get_empleados(t),
      codigos_turno |-> Registros(t.codigos_turno),
      usuarios      |-> Registros({ [u EXCEPT !.password_hash = Null] : u \in t.usuarios }),
      malla_turnos  |-> Registros(t.malla_turnos),
      configuracion |-> get_configuracion(t) ]

\* exportar_backup_json(): the document json.dumps writes and json.loads
\* reads back.  Every table is exported with all its columns; a NULL of
\* the store is None in the DataFrame, null in the text and None again in
\* the parsed document.
exportar_backup_json(t) ==
    [ llaves        |-> {"empleados", "codigos_turno", "usuarios", "malla_turnos",
                         "configuracion"},
      empleados     |-> get_empleados(t),
      codigos_turno |-> Registros(t.codigos_turno),
      usuarios      |-> Registros(t.usuarios),
      malla_turnos  |-> Registros(t.malla_turnos),
      configuracion |-> get_configuracion(t) ]

\* importar_backup_json(json_str), first part: json.loads and
\* crear_backup_automatico().  The document is an uploaded file or the
\* export of the store as it is.
ImportarBackupJson ==
    /\ Inicio
    /\ session.app_initialized
    /\ \E datos \in Documentos \cup { exportar_backup_json(db.tablas) } :
         call' = [op |-> "importar_json", pre |-> db, datos |-> datos]
    /\ backups' \in crear_backup_automatico(db, backups, now', cloud, session)
    /\ pc' = "importar_tablas"
    /\ UNCHANGED <<cloud, db, rescues, session>>

\* Mutant of ImportarDatos: the DELETEs are committed before the INSERTs
\* run, so a failing INSERT leaves the tables emptied.
ImportarDatosSinTransaccion(f, datos, ts) ==
    IF Insertable(datos)
    THEN [ok |-> TRUE, db |-> Commit(f, TablasImportadas(f.tablas, datos), ts)]
    ELSE [ok |-> FALSE,
          db |-> Commit(f, [ f.tablas EXCEPT !.malla_turnos = {}, !.empleados = {},
                                              !.codigos_turno = {}, !.usuarios = {} ], ts)]

\* The DELETEs, INSERTs and commit of importar_backup_json at time ts, in
\* one transaction.  A failing INSERT raises before conn.commit(): the
\* connection is dropped and SQLite rolls its transaction back.
ImportarDatos(f, datos, ts) ==
    IF Insertable(datos)
    THEN [ok |-> TRUE, db |-> Commit(f, TablasImportadas(f.tablas, datos), ts)]
    ELSE [ok |-> FALSE, db |-> f]

\* importar_backup_json, second part: the transaction, then the caches and
\* the log row when it committed.
ImportarTablas ==
    /\ pc = "importar_tablas"
    /\ pc' = "idle"
    /\ LET r == ImportarDatos(db, call.datos, now)
       IN  /\ db' = IF r.ok THEN Commit(r.db, registrar_log(r.db.tablas), now) ELSE r.db
           /\ session' = IF r.ok
                         THEN CachesDe(r.db.tablas) @@ session
                         ELSE session
           /\ call' = call @@ [ok |-> r.ok]
    /\ UNCHANGED <<cloud, now, backups, rescues>>

\* ------------------------------------------- login, permissions, pages
\* ROLES[role]['permissions'], and no permission for a role ROLES lacks
\* (ROLES.get(role, {}).get('permissions', [])).
PermisosDeRol(role) ==
    CASE role = "admin"      -> {"read", "write", "delete", "configure", "manage_users"}
      [] role = "supervisor" -> {"read", "write"}
      [] role = "empleado"   -> {"read"}
      [] OTHER               -> {}

Permisos == {"read", "write", "delete", "configure", "manage_users"}

\* check_permission(permission) in the session ss.
check_permission(ss, permission) ==
    IF ~ss.auth.is_authenticated THEN FALSE
    ELSE permission \in PermisosDeRol(ss.auth.role)

\* usuarios.nombre and empleados.nombre_completo of the rows of the model,
\* upper case, as their words.
NombreDeUsuario(username) ==
    CASE username = "admin"      -> <<"ADMINISTRADOR", "SISTEMA">>
      [] username = "supervisor" -> <<"SUPERVISOR", "GENERAL">>
      [] username = "empleado"   -> <<"JUAN", "PEREZ", "GARCIA">>
      [] username = "ana"        -> <<"ANA", "ROJAS">>
      [] username = "eva"        -> <<"EVA", "GARCIA">>
      [] OTHER                   -> <<"LUIS", "DIAZ">>

NombreCompleto(cedula) ==
    CASE cedula = "1055272480" -> <<"MERCHAN", "EDWIN">>
      [] cedula = "23755474"   -> <<"SANCHEZ", "BEYANIDA">>
      [] cedula = "52000111"   -> <<"GARCIA", "JUAN">>
      [] OTHER                 -> <<"ABRIL", "JOHANNA">>

\* parte in texto for a word and the words of a name: the word is a
\* substring of one of them ("ANA" is one of "JOHANNA").
EnNombre(parte, nombre) ==
    \E i \in 1..Len(nombre) :
        parte = nombre[i] \/ <<parte, nombre[i]>> \in { <<"ANA", "JOHANNA">> }

\* The employee login associates with a user name: the first employee,
\* in the order of get_empleados, whose name is equal to it, else the first
\* that contains one of its words, else the first one of whose words it
\* contains; None without one.  The result is <<row>>, or << >> for None.
EmpleadoAsociado(t, nombre_buscado) ==
    LET empleados_df == get_empleados(t)
        Primero(P(_)) ==
            LET I == { i \in 1..Len(empleados_df) : P(empleados_df[i]) }
            IN  IF I = {} THEN << >>
                ELSE << empleados_df[CHOOSE i \in I : \A j \in I : i <= j] >>
        Exacta(e)  == NombreCompleto(e.cedula) = nombre_buscado
        Parcial(e) == \E k \in 1..Len(nombre_buscado) :
                          EnNombre(nombre_buscado[k], NombreCompleto(e.cedula))
        Inversa(e) == \E k \in 1..Len(NombreCompleto(e.cedula)) :
                          EnNombre(NombreCompleto(e.cedula)[k], nombre_buscado)
    IN  IF Primero(Exacta) # << >> THEN Primero(Exacta)
        ELSE IF Primero(Parcial) # << >> THEN Primero(Parcial)
        ELSE Primero(Inversa)

\* Mutant of login: the password is not compared with the stored hash.
login_sin_hash(t, ss, username, password) ==
    LET result == { u \in t.usuarios : u.username = username }
    IN  IF result # {}
        THEN LET u == CHOOSE x \in result : TRUE
             IN  [ ok |-> TRUE,
                   session |-> [ ss EXCEPT
                       !.empleado_actual = EmpleadoAsociado(t, NombreDeUsuario(username)),
                       !.auth = [ is_authenticated |-> TRUE, username |-> username,
                                  role |-> u.role ] ] ]
        ELSE [ ok |-> FALSE, session |-> ss ]

\* login(username, password) on the tables t in the session ss: True, the
\* associated employee and the auth entry when the user exists and
\* sha256(password) is its stored hash.
login(t, ss, username, password) ==
    LET result == { u \in t.usuarios : u.username = username }
    IN  IF result # {} /\ (CHOOSE x \in result : TRUE).password_hash = Sha256(password)
        THEN LET u == CHOOSE x \in result : TRUE
             IN  [ ok |-> TRUE,
                   session |-> [ ss EXCEPT
                       !.empleado_actual = EmpleadoAsociado(t, NombreDeUsuario(username)),
                       !.auth = [ is_authenticated |-> TRUE, username |-> username,
                                  role |-> u.role ] ] ]
        ELSE [ ok |-> FALSE, session |-> ss ]

\* The names and passwords typed into login_form.
UsuariosDeFormulario == {"admin", "supervisor", "eva", "luis", "nadie"}
Contrasenas == {"admin123", "super123", "temp123"}

\* "Ingresar" of pagina_login, the page main shows while nobody is logged
\* in: login and, when it succeeds, its log row.
Login ==
    /\ pc = "idle"
    /\ session.app_initialized
    /\ ~session.auth.is_authenticated
    /\ db.tablas.logs < MaxLogs
    /\ \E username \in UsuariosDeFormulario : \E password \in Contrasenas :
         LET r == login(db.tablas, session, username, password)
         IN  /\ session' = r.session
             /\ db' = IF r.ok THEN CommitEntreTicks(db, registrar_log(db.tablas), now)
                      ELSE db
             /\ call' = [ op |-> "login", pre |-> db, username |-> username,
                          password |-> password, ok |-> r.ok ]
    /\ UNCHANGED <<cloud, now, backups, rescues, pc>>

\* The session after logout().
logout(ss) ==
    [ ss EXCEPT !.auth = SinAutenticar, !.empleado_actual = << >> ]

\* "Cerrar" of mostrar_barra_usuario, shown while somebody is logged in:
\* logout with its log row.
Logout ==
    /\ pc = "idle"
    /\ session.app_initialized
    /\ session.auth.is_authenticated
    /\ db.tablas.logs < MaxLogs
    /\ session' = logout(session)
    /\ db' = CommitEntreTicks(db, registrar_log(db.tablas), now)
    /\ call' = [op |-> "logout", pre |-> db, antes |-> session]
    /\ UNCHANGED <<cloud, now, backups, rescues, pc>>

\* The pages the buttons of mostrar_sidebar lead to for a role; the last
\* branch is taken for every role that is neither admin nor supervisor.
OpcionesDeSidebar(rol) ==
    CASE rol = "admin"      -> {"malla", "empleados", "config", "usuarios", "backup",
                                "info_sistema"}
      [] rol = "supervisor" -> {"malla", "empleados"}
      [] OTHER              -> {"mis_turnos", "calendario", "mi_info"}

\* A navigation button of mostrar_sidebar sets current_page.
Navegar ==
    /\ pc = "idle"
    /\ session.app_initialized
    /\ session.auth.is_authenticated
    /\ \E key \in OpcionesDeSidebar(session.auth.role) :
         /\ session' = [ session EXCEPT !.current_page = key ]
         /\ call' = [op |-> "navegar", pre |-> db, key |-> key]
    /\ UNCHANGED <<cloud, now, db, backups, rescues, pc>>

\* paginas_disponibles of main: the page list of a role, in its order.
RolesConPaginas == {"admin", "supervisor", "empleado"}

paginas_disponibles(rol) ==
    CASE rol = "admin"      -> <<"malla", "empleados", "config", "usuarios", "backup",
                                 "info_sistema">>
      [] rol = "supervisor" -> <<"malla", "empleados">>
      [] rol = "empleado"   -> <<"mis_turnos", "calendario", "mi_info">>

\* The dispatch of main for the session ss: the page it runs and the
\* session afterwards.  For a role paginas_disponibles lacks,
\* paginas_disponibles.get(rol, []) is empty and paginas_disponibles[rol]
\* raises KeyError.
despachar(ss) ==
    LET rol == ss.auth.role
        pagina_actual == ss.current_page
    IN  IF rol \notin RolesConPaginas
        THEN [ error |-> TRUE, pagina |-> Null, session |-> ss ]
        ELSE IF pagina_actual \notin Rango(paginas_disponibles(rol))
        THEN [ error |-> FALSE, pagina |-> paginas_disponibles(rol)[1],
               session |-> [ ss EXCEPT !.current_page = paginas_disponibles(rol)[1] ] ]
        ELSE [ error |-> FALSE, pagina |-> pagina_actual, session |-> ss ]

\* A run of main in a session where somebody is logged in, up to the page
\* it dispatches.
Main ==
    /\ pc = "idle"
    /\ session.app_initialized
    /\ session.auth.is_authenticated
    /\ LET r == despachar(session)
       IN  /\ session' = r.session
           /\ call' = [op |-> "main", pre |-> db, pagina |-> r.pagina, error |-> r.error]
    /\ UNCHANGED <<cloud, now, db, backups, rescues, pc>>

\* ------------------------------------------------------- configuration
\* -------------------------------------------------------------- employees
\* Cedulas typed into the form of agregar_empleado: one a seeded employee
\* has, one no seeded employee has.
CedulasDeFormulario == { "23755474", "52000111" }

\* Cedula typed into the same form by a second browser session.
CedulasDeOtraSesion == { "60000222" }

\* SELECT MAX(numero) FROM empleados, read on a connection of its own while
\* the form is drawn: (max_num or 0) + 1.
NuevoNumero(t) == Maximo({0} \cup { e.numero : e \in t.empleados }) + 1

\* agregar_empleado after the form was submitted with cedula cc (digits
\* only, the other fields filled in): False and no write when an employee
\* has the cedula, otherwise the INSERT with the numero read while the form
\* was drawn.
agregar_empleado(t, cc, nuevo_numero) ==
    IF \E e \in t.empleados : e.cedula = cc
    THEN [ok |-> FALSE, tablas |-> t]
    ELSE LET id == t.seq_empleados + 1
         IN  [ok |-> TRUE,
              tablas |-> [ t EXCEPT
                  !.empleados = @ \cup { [id |-> id, numero |-> nuevo_numero,
                                          cedula |-> cc] },
                  !.seq_empleados = id ]]

\* The script run of a submitted agregar_empleado form, up to the point
\* where the form is drawn: nuevo_numero is read and the connection closed.
\* Nothing is written yet.
AgregarEmpleado ==
    /\ pc = "idle"
    /\ now < MaxNow
    /\ session.app_initialized
    /\ \E cc \in CedulasDeFormulario :
         call' = [op |-> "agregar_empleado", pre |-> db, cc |-> cc,
                  nuevo_numero |-> NuevoNumero(db.tablas), ok |-> FALSE]
    /\ pc' = "agregar_insertar"
    /\ UNCHANGED <<cloud, now, db, backups, rescues, session>>

\* The rest of the same script run: the COUNT on the cedula and the INSERT
\* on a second connection; on success the commit, the log row, the
\* refreshed employee cache and crear_backup_automatico().
AgregarEmpleadoInsertar ==
    /\ pc = "agregar_insertar"
    /\ now < MaxNow
    /\ now' = now + 1
    /\ pc' = "idle"
    /\ LET r == agregar_empleado(db.tablas, call.cc, call.nuevo_numero)
       IN  /\ db' = IF r.ok THEN Commit(db, registrar_log(r.tablas), now') ELSE db
           /\ session' = IF r.ok
                         THEN [ session EXCEPT !.empleados_df = get_empleados(db'.tablas) ]
                         ELSE session
           /\ backups' \in IF r.ok
                          THEN crear_backup_automatico(db', backups, now', cloud, session')
                          ELSE { backups }
           /\ call' = [ call EXCEPT !.pre = db, !.ok = r.ok ]
    /\ UNCHANGED <<cloud, rescues>>

\* A second browser session of the same server process submits the form of
\* agregar_empleado and its script run completes while the run of this
\* session is between reading nuevo_numero and its INSERT. The store and the
\* backup directory are shared; the session state of the other session is
\* its own and holds the store as it is.
AgregarEmpleadoOtraSesion ==
    /\ pc = "agregar_insertar"
    /\ now + 1 < MaxNow
    /\ now' = now + 1
    /\ \E cc \in CedulasDeOtraSesion :
         LET r == agregar_empleado(db.tablas, cc, NuevoNumero(db.tablas))
             otra == SesionNueva(r.tablas)
         IN  /\ r.ok
             /\ db' = Commit(db, registrar_log(r.tablas), now')
             /\ backups' \in crear_backup_automatico(db', backups, now', cloud, otra)
    /\ UNCHANGED <<cloud, rescues, session, pc, call>>

\* Mutant of ActualizarEmpleado: the UPDATE runs on a table without the
\* UNIQUE constraint on cedula.
ActualizarEmpleadoSinUnique(empleados, row) ==
    { IF e.id = row.id THEN [e EXCEPT !.cedula = row.cedula] ELSE e : e \in empleados }

\* One UPDATE empleados SET ..., cedula = ? WHERE id = ? of
\* guardar_empleados: when another employee has the cedula the statement
\* raises (UNIQUE) and the loop continues with the next row.
ActualizarEmpleado(empleados, row) ==
    IF \E e \in empleados : e.id # row.id /\ e.cedula = row.cedula
    THEN empleados
    ELSE { IF e.id = row.id THEN [e EXCEPT !.cedula = row.cedula] ELSE e : e \in empleados }

\* The loop of guardar_empleados over the rows of the edited grid, from row
\* i on: the employees after it.
RECURSIVE ActualizarFilas(_, _, _)
ActualizarFilas(empleados, df, i) ==
    IF i > Len(df) THEN empleados
    ELSE ActualizarFilas(ActualizarEmpleado(empleados, df[i]), df, i + 1)

\* cambios_realizados of guardar_empleados: the UPDATEs that did not raise
\* and matched a row.
RECURSIVE CambiosRealizados(_, _, _)
CambiosRealizados(empleados, df, i) ==
    IF i > Len(df) THEN 0
    ELSE (IF /\ \E e \in empleados : e.id = df[i].id
             /\ ~\E e \in empleados : e.id # df[i].id /\ e.cedula = df[i].cedula
          THEN 1 ELSE 0)
         + CambiosRealizados(ActualizarEmpleado(empleados, df[i]), df, i + 1)

\* The grids "Guardar Cambios" of pagina_empleados hands to
\* guardar_empleados: the cached employees (num_rows fixed, ID and numero
\* not editable) as they are or with the cedula of one row retyped.
EmpleadosEditados(ss) ==
    LET df == ss.empleados_df
    IN  { df } \cup { [ df EXCEPT ![i].cedula = cc ] :
                        i \in 1..Len(df),
                        cc \in CedulasDeFormulario \cup { df[j].cedula : j \in 1..Len(df) } }

\* "Guardar Cambios" of pagina_empleados: guardar_empleados(edited_df), the
\* refreshed employee cache, and crear_backup_automatico() when a row was
\* changed.
GuardarEmpleados ==
    /\ Inicio
    /\ session.app_initialized
    /\ \E df \in EmpleadosEditados(session) :
         LET cambios == CambiosRealizados(db.tablas.empleados, df, 1)
             t == [ db.tablas EXCEPT !.empleados = ActualizarFilas(@, df, 1) ]
         IN  /\ db' = IF cambios > 0 THEN Commit(db, t, now') ELSE db
             /\ session' = [ session EXCEPT !.empleados_df = get_empleados(db'.tablas) ]
             /\ backups' \in IF cambios > 0
                            THEN crear_backup_automatico(db', backups, now', cloud, session')
                            ELSE { backups }
             /\ call' = [op |-> "guardar_empleados", pre |-> db, df |-> df,
                         cambios |-> cambios]
    /\ UNCHANGED <<cloud, rescues, pc>>

\* ------------------------------------------------------- shift codes
\* Mutant of EliminarCodigoDeTablas: the rows that use the code are
\* deleted with it.
EliminarCodigoConFilas(t, codigo) ==
    [ t EXCEPT
        !.codigos_turno = @ \ {codigo},
        !.malla_turnos  = { r \in @ : r.codigo_turno # codigo } ]

\* DELETE FROM codigos_turno WHERE codigo = ? and
\* UPDATE malla_turnos SET codigo_turno = NULL WHERE codigo_turno = ?.
EliminarCodigoDeTablas(t, codigo) ==
    [ t EXCEPT
        !.codigos_turno = @ \ {codigo},
        !.malla_turnos  =
            { IF r.codigo_turno = codigo
              THEN [r EXCEPT !.codigo_turno = Null] ELSE r : r \in @ } ]

\* "Confirmar Eliminacion" of a shift code in pagina_configuracion, taken
\* as one operation once it is confirmed: DELETE the code, set codigo_turno
\* to NULL where it is used, refresh the cache, crear_backup_automatico().
EliminarCodigo ==
    /\ Inicio
    /\ session.app_initialized
    /\ \E codigo \in db.tablas.codigos_turno :
         LET t == EliminarCodigoDeTablas(db.tablas, codigo)
         IN  /\ db' = Commit(db, t, now')
             /\ session' = [ session EXCEPT !.codigos_turno = get_codigos_turno(t) ]
             /\ backups' \in crear_backup_automatico(db', backups, now', cloud, session')
             /\ call' = [op |-> "eliminar_codigo", pre |-> db, codigo |-> codigo]
    /\ UNCHANGED <<cloud, rescues, pc>>

\* "Guardar Configuracion" of pagina_configuracion: on Streamlit Cloud the
\* max_backups setting is stored; the cache is refreshed and
\* crear_backup_automatico() runs.
GuardarConfiguracion ==
    /\ Inicio
    /\ session.app_initialized
    /\ \E max_backups \in 1..MaxKeep :
         LET t == IF cloud
                  THEN [ db.tablas EXCEPT !.configuracion.max_backups = max_backups ]
                  ELSE db.tablas
         IN  /\ db' = Commit(db, t, now')
             /\ session' = [ session EXCEPT !.configuracion = get_configuracion(t) ]
             /\ backups' \in crear_backup_automatico(db', backups, now', cloud, session')
             /\ call' = [op |-> "guardar_configuracion", pre |-> db]
    /\ UNCHANGED <<cloud, rescues, pc>>

Next ==
    \/ InicializarSessionState
    \/ GuardarMallaTurnos
    \/ GuardarMallaTurnosExcept
    \/ CrearBackup
    \/ RestaurarBackup
    \/ RestaurarCopia
    \/ ImportarBackupJson
    \/ ImportarTablas
    \/ AgregarEmpleado
    \/ AgregarEmpleadoInsertar
    \/ GuardarEmpleados
    \/ EliminarCodigo
    \/ GuardarConfiguracion

Spec == Init /\ [][Next]_vars

\* The employee pages with two browser sessions on the same store.
NextEmpleados ==
    \/ InicializarSessionState
    \/ AgregarEmpleado
    \/ AgregarEmpleadoInsertar
    \/ AgregarEmpleadoOtraSesion
    \/ GuardarEmpleados
    \/ CrearBackup

SpecEmpleados == Init /\ [][NextEmpleados]_vars

\* The handlers that write the logs table, by either module.
NextLogs ==
    \/ InicializarSessionState
    \/ CargarMalla
    \/ GuardarMallaTurnos
    \/ DatabaseRegistrarLog

SpecLogs == Init /\ [][NextLogs]_vars

\* The month page of a session: the month is loaded into the session, saved,
\* and the store is restored from a snapshot.
NextMalla ==
    \/ InicializarSessionState
    \/ CargarMalla
    \/ GuardarMallaTurnos
    \/ GuardarMallaTurnosConBackup
    \/ AgregarEmpleado
    \/ AgregarEmpleadoInsertar
    \/ RestaurarBackup
    \/ RestaurarCopia

SpecMalla == Init /\ [][NextMalla]_vars

\* The life of a session: users are imported, somebody logs in, moves
\* between the pages and logs out.
NextSesion ==
    \/ InicializarSessionState
    \/ ImportarBackupJson
    \/ ImportarTablas
    \/ Login
    \/ Logout
    \/ Navegar
    \/ Main

SpecSesion == Init /\ [][NextSesion]_vars

\* ================================================================ claims
Ocioso(op) == pc = "idle" /\ call.op = op

\* The entity tables of a store file (the log table left out).
Entidades(t) ==
    [ empleados |-> t.empleados, codigos_turno |-> t.codigos_turno,
      usuarios |-> t.usuarios, malla_turnos |-> t.malla_turnos,
      configuracion |-> t.configuracion ]

\* C1: in every reachable state of the store there is at most one
\* malla_turnos row for any (empleado_id, mes, ano, dia).
C1_UnaFilaPorDia ==
    Cardinality({ Clave(r) : r \in db.tablas.malla_turnos })
        = Cardinality(db.tablas.malla_turnos)

\* C1 witness: a save has replaced the code of a day that already had a row.
C1_Witness ==
    /\ Ocioso("guardar_malla")
    /\ \E r \in call.pre.tablas.malla_turnos : \E q \in db.tablas.malla_turnos :
          Clave(r) = Clave(q) /\ r.codigo_turno # q.codigo_turno

\* The employee ids a session asks get_turnos_empleado_mes about: the
\* seeded ones, an imported one and one no store of the model holds.
IdsConsultados == {1, 2, 3, 9}

\* C2: for every employee id (known or not), month and store state,
\* get_turnos_empleado_mes returns a map whose keys are exactly the days
\* 1..days_in_month, with "" for a day without a row or with a NULL code.
C2_TodosLosDias ==
    db.exists =>
        \A p \in Periodos : \A e \in IdsConsultados :
            LET turnos == get_turnos_empleado_mes(db.tablas, e, p[1], p[2])
            IN  /\ DOMAIN turnos = 1..MonthRange(p[2], p[1])
                /\ \A d \in DOMAIN turnos :
                      (\A r \in FilasDe(db.tablas.malla_turnos, e, p[1], p[2], d) :
                          r.codigo_turno = Null) => turnos[d] = ""

\* The assignments of month <<mes, ano>> for the employees of the store:
\* rows of a known employee whose day is a day of that month.
AsignacionesDelMes(t, mes, ano) ==
    { r \in t.malla_turnos :
        /\ r.mes = mes /\ r.ano = ano
        /\ r.dia \in 1..MonthRange(ano, mes)
        /\ \E e \in t.empleados : e.id = r.empleado_id }

\* All the upserts guardar_malla_turnos makes for a grid.
UpsertsDeGrid(t, df, mes, ano) ==
    UNION { UpsertsDeFila(t, df[i], mes, ano) : i \in 1..Len(df) }

\* C3: loading a month as a grid and decomposing the grid into upserts gives
\* non-null upserts that are exactly the assignments of the month with a
\* non-empty code, and an empty cell gives an upsert with a NULL code.
C3_IdaYVuelta ==
    db.exists =>
        \A p \in Periodos :
            LET df == get_malla_turnos(db.tablas, p[1], p[2])
                ups == UpsertsDeGrid(db.tablas, df, p[1], p[2])
            IN  /\ { u \in ups : u.codigo_turno # Null }
                     = { r \in AsignacionesDelMes(db.tablas, p[1], p[2]) :
                           r.codigo_turno \notin {Null, ""} }
                /\ \A i \in 1..Len(df) :
                      \A u \in UpsertsDeFila(db.tablas, df[i], p[1], p[2]) :
                          df[i].dias[ColName(u.dia, p[1], p[2])] = ""
                              => u.codigo_turno = Null

\* C4: after guardar_malla_turnos(df, mes, ano), a second call with the same
\* grid leaves the same set of (employee, year, month, day, code) rows, in
\* malla.py and in database.py.
C4_Idempotente ==
    Ocioso("guardar_malla") =>
        /\ guardar_malla_turnos(db.tablas, call.df, call.mes, call.ano).malla_turnos
             = db.tablas.malla_turnos
        /\ LET una == db_guardar_malla_turnos(call.pre.tablas, call.df, call.mes, call.ano)
           IN  db_guardar_malla_turnos(una, call.df, call.mes, call.ano).malla_turnos
                 = una.malla_turnos

\* C4 witness: a save of an edited grid that changed stored rows.
C4_Witness ==
    /\ Ocioso("guardar_malla")
    /\ call.resultado > 0
    /\ call.pre.tablas.malla_turnos # {}
    /\ db.tablas.malla_turnos # call.pre.tablas.malla_turnos

\* A cell guardar_malla_turnos of malla.py treats as empty: None, NaN, or
\* text that is empty once stripped.
CeldaVacia(v) == v = Null \/ Strip(v) = ""

\* The rows of grid df whose cedula is the cedula of an employee of t.
FilasConocidas(t, df) ==
    { i \in 1..Len(df) : IdPorCedula(t, df[i].CC) # 0 }

\* Saving df over the rows antes gave the rows despues: no key of antes is
\* lost, and every empty day cell of a known employee has a row with a
\* NULL code.
AnulaSinBorrar(t, antes, despues, df, mes, ano) ==
    /\ { Clave(r) : r \in antes } \subseteq { Clave(r) : r \in despues }
    /\ \A i \in FilasConocidas(t, df) : \A c \in DOMAIN df[i].dias :
          CeldaVacia(df[i].dias[c]) =>
              \E r \in despues :
                  /\ Clave(r) = <<IdPorCedula(t, df[i].CC), mes, ano, c[1]>>
                  /\ r.codigo_turno = Null

\* C11: in guardar_malla_turnos a blank, missing (NaN) or null cell of a
\* matched employee's day column leaves a row for that day whose code is
\* NULL, and no assignment row is deleted; in malla.py and in database.py.
C11_CeldaVaciaAnula ==
    Ocioso("guardar_malla") =>
        /\ AnulaSinBorrar(call.pre.tablas, call.pre.tablas.malla_turnos,
                          db.tablas.malla_turnos, call.df, call.mes, call.ano)
        /\ AnulaSinBorrar(call.pre.tablas, call.pre.tablas.malla_turnos,
                          db_guardar_malla_turnos(call.pre.tablas, call.df,
                                                  call.mes, call.ano).malla_turnos,
                          call.df, call.mes, call.ano)

\* The grid df without the rows whose cedula no employee of t has.
SinDesconocidas(t, df) ==
    SelectSeq(df, LAMBDA row : IdPorCedula(t, row.CC) # 0)

\* C12: a grid row whose cedula matches no employee is skipped: the save
\* leaves exactly the rows that saving the grid without such rows leaves,
\* the other rows being processed wherever the unknown row stands; in
\* malla.py and in database.py.
C12_FilaDesconocidaOmitida ==
    Ocioso("guardar_malla") =>
        LET t    == call.pre.tablas
            resto == SinDesconocidas(t, call.df)
        IN  /\ db.tablas.malla_turnos
                 = guardar_malla_turnos(t, resto, call.mes, call.ano).malla_turnos
            /\ call.resultado = CambiosGuardados(t, resto, 1, call.mes, call.ano)
            /\ \A r \in db.tablas.malla_turnos \ t.malla_turnos :
                  \E i \in FilasConocidas(t, call.df) :
                      r.empleado_id = IdPorCedula(t, call.df[i].CC)
            /\ db_guardar_malla_turnos(t, call.df, call.mes, call.ano)
                 = db_guardar_malla_turnos(t, resto, call.mes, call.ano)

\* C12 witness: a grid whose first row has an unknown cedula was saved and
\* the rows after it were written.
C12_Witness ==
    /\ Ocioso("guardar_malla")
    /\ Len(call.df) > 1
    /\ IdPorCedula(call.pre.tablas, call.df[1].CC) = 0
    /\ call.resultado > 0
    /\ db.tablas.malla_turnos # call.pre.tablas.malla_turnos

\* The days of a month by the calendar: 31, 30, 28, or 29 for February of
\* a leap year (divisible by 4 and not by 100, or divisible by 400).
DiasDelCalendario(ano, mes) ==
    CASE mes \in {1, 3, 5, 7, 8, 10, 12} -> 31
      [] mes \in {4, 6, 9, 11}           -> 30
      [] OTHER -> IF (ano % 400 = 0) \/ (ano % 4 = 0 /\ ano % 100 # 0)
                  THEN 29 ELSE 28

\* A grid is the wide table of month <<mes, ano>> of the store t: one row
\* per employee in ascending numero order, exactly the day columns
\* 1..days_in_month, each cell the code of the matching row or "" when
\* there is no row or its code is NULL.
EsGridDelMes(df, t, mes, ano) ==
    /\ Len(df) = Cardinality(t.empleados)
    /\ { df[i].CC : i \in 1..Len(df) } = { e.cedula : e \in t.empleados }
    /\ \A i \in 1..Len(df) : \A j \in 1..Len(df) : i < j => df[i].N <= df[j].N
    /\ \A i \in 1..Len(df) :
          /\ DOMAIN df[i].dias
               = { ColName(d, mes, ano) : d \in 1..DiasDelCalendario(ano, mes) }
          /\ \A c \in DOMAIN df[i].dias :
                LET f == FilasDe(t.malla_turnos, IdPorCedula(t, df[i].CC),
                                 mes, ano, c[1])
                IN  df[i].dias[c] =
                      IF f = {} \/ (\A r \in f : r.codigo_turno = Null) THEN ""
                      ELSE (CHOOSE r \in f : TRUE).codigo_turno

\* C13: get_malla_turnos(mes, ano) returns exactly one row per employee in
\* ascending numero order with exactly one day column per day of the
\* month, each cell holding the stored code or ""; in malla.py and in
\* database.py.
C13_GridDelMes ==
    db.exists =>
        \A p \in Periodos :
            /\ EsGridDelMes(get_malla_turnos(db.tablas, p[1], p[2]),
                            db.tablas, p[1], p[2])
            /\ EsGridDelMes(db_get_malla_turnos(db.tablas, p[1], p[2]),
                            db.tablas, p[1], p[2])

\* Years the day count is compared on: a leap year, a common year, a
\* century that is a leap year and one that is not.
AnosDelCalendario == {1900, 2000, 2024, 2025}

\* C14: the number of days get_malla_turnos, guardar_malla_turnos and
\* get_turnos_empleado_mes use for a month is the calendar's (31, 30, 28, or
\* 29 for February of a leap year), for every month and year; in malla.py
\* (calendar.monthrange) and in database.py.
C14_DiasDelMes ==
    db.exists =>
        /\ \A ano \in AnosDelCalendario : \A mes \in 1..12 :
              /\ MonthRange(ano, mes) = DiasDelCalendario(ano, mes)
              /\ db_dias(mes) = DiasDelCalendario(ano, mes)
        /\ \A p \in Periodos : \A e \in db.tablas.empleados :
              /\ Cardinality(DOMAIN FilaDeGrid(db.tablas.malla_turnos, e,
                                               p[1], p[2]).dias)
                   = DiasDelCalendario(p[2], p[1])
              /\ Cardinality(UpsertsDeFila(db.tablas,
                                FilaDeGrid(db.tablas.malla_turnos, e, p[1], p[2]),
                                p[1], p[2]))
                   = DiasDelCalendario(p[2], p[1])

\* C15: in every reachable state of the store every malla_turnos row has
\* 1 <= dia <= days of its own month and year.
C15_DiaDentroDelMes ==
    \A r \in db.tablas.malla_turnos :
        r.dia \in 1..DiasDelCalendario(r.ano, r.mes)

\* The rows i of the saved grid that belong to a known employee and hold a
\* code in exactly one day column, all other day cells being empty.
FilasDeUnCodigo ==
    { i \in FilasConocidas(call.pre.tablas, call.df) :
        Cardinality({ c \in DOMAIN call.df[i].dias :
                        ~CeldaVacia(call.df[i].dias[c]) }) = 1 }

\* The one day column of row i that holds a code.
ColumnaConCodigo(i) ==
    CHOOSE c \in DOMAIN call.df[i].dias : ~CeldaVacia(call.df[i].dias[c])

\* The stored rows of month <<call.mes, call.ano>> of the employee of row i.
FilasGuardadasDe(i) ==
    { r \in db.tablas.malla_turnos :
        /\ r.empleado_id = IdPorCedula(call.pre.tablas, call.df[i].CC)
        /\ r.mes = call.mes /\ r.ano = call.ano }

\* get_turnos_empleado_mes gives the code of row i for its day and "" for
\* every other day of the month.
MapaDeUnCodigo(i) ==
    LET c      == ColumnaConCodigo(i)
        turnos == get_turnos_empleado_mes(
                      db.tablas, IdPorCedula(call.pre.tablas, call.df[i].CC),
                      call.mes, call.ano)
    IN  /\ DOMAIN turnos = 1..MonthRange(call.ano, call.mes)
        /\ \A d \in DOMAIN turnos :
              turnos[d] = IF d = c[1] THEN Strip(call.df[i].dias[c]) ELSE ""

C17_SinBaseDeDatos ==
    (Ocioso("crear_backup") /\ ~call.pre.exists) =>
        /\ call.backup_file = 0
        /\ backups = call.antes
        /\ ~db.exists

\* C17 witness: crear_backup_automatico has returned from a call made
\* while DB_NAME did not exist.
C17_Witness ==
    /\ Ocioso("crear_backup")
    /\ ~call.pre.exists
    /\ now > 0

\* C18: after the deletion of a shift code the code is not in
\* codigos_turno and no malla_turnos row carries it; the rows that carried
\* it are still there with a NULL code and every other row, and every other
\* code, is unchanged.
C18_CodigoEliminado ==
    Ocioso("eliminar_codigo") =>
        LET antes == call.pre.tablas
        IN  /\ call.codigo \notin db.tablas.codigos_turno
            /\ db.tablas.codigos_turno = antes.codigos_turno \ {call.codigo}
            /\ \A r \in db.tablas.malla_turnos : r.codigo_turno # call.codigo
            /\ { Clave(r) : r \in db.tablas.malla_turnos }
                 = { Clave(r) : r \in antes.malla_turnos }
            /\ Cardinality(db.tablas.malla_turnos)
                 = Cardinality(antes.malla_turnos)
            /\ \A r \in antes.malla_turnos :
                  IF r.codigo_turno = call.codigo
                  THEN [r EXCEPT !.codigo_turno = Null] \in db.tablas.malla_turnos
                  ELSE r \in db.tablas.malla_turnos

\* C18 witness: a code was deleted while one row carried it and another
\* row carried a different code or none.
C18_Witness ==
    /\ Ocioso("eliminar_codigo")
    /\ \E r \in call.pre.tablas.malla_turnos : r.codigo_turno = call.codigo
    /\ \E r \in call.pre.tablas.malla_turnos : r.codigo_turno # call.codigo

\* The rows of the grid handed to guardar_empleados whose cedula was, when
\* the save started, the cedula of another employee.
FilasConCedulaAjena ==
    { i \in 1..Len(call.df) :
        \E e \in call.pre.tablas.empleados :
            e.id # call.df[i].id /\ e.cedula = call.df[i].cedula }

\* C19: in every reachable state no two employees share a cedula; adding
\* an employee with a cedula an employee already has returns False and
\* leaves the store as it was; a row of the edited employee grid whose
\* cedula another employee has is not written, and no employee is lost.
C19_CedulaUnica ==
    /\ \A e1 \in db.tablas.empleados : \A e2 \in db.tablas.empleados :
          e1.cedula = e2.cedula => e1 = e2
    /\ (Ocioso("agregar_empleado")
          /\ \E e \in call.pre.tablas.empleados : e.cedula = call.cc) =>
          ~call.ok /\ db = call.pre
    /\ Ocioso("guardar_empleados") =>
          /\ { e.id : e \in db.tablas.empleados }
               = { e.id : e \in call.pre.tablas.empleados }
          /\ \A i \in FilasConCedulaAjena :
                \A e \in call.pre.tablas.empleados :
                    e.id = call.df[i].id => e \in db.tablas.empleados
          /\ \A e \in call.pre.tablas.empleados :
                (\A i \in 1..Len(call.df) : call.df[i].id # e.id)
                    => e \in db.tablas.empleados

\* C19 witness: the employee grid was saved with the cedula of one row
\* retyped to the cedula of another employee, and the other rows of the
\* grid were written.
C19_Witness ==
    /\ Ocioso("guardar_empleados")
    /\ FilasConCedulaAjena # {}
    /\ call.cambios > 0

\* C20: after a successful importar_backup_json every user of the document
\* whose entry has no password_hash is stored with
\* sha256("temp123").hexdigest(), the same for all of them, and every user
\* whose entry has a password_hash is stored with exactly that hash.
C20_HashTemporal ==
    (Ocioso("importar_json") /\ call.ok) =>
        \A u \in Rango(Entradas(call.datos, "usuarios")) :
            \E x \in db.tablas.usuarios :
                /\ x.username = u.username
                /\ x.password_hash = IF u.password_hash \in {Null, ""}
                                     THEN Sha256("temp123") ELSE u.password_hash
                /\ \A y \in db.tablas.usuarios : y.username = u.username => y = x

\* C20 witness: a document with a user that has a hash, a user without the
\* key and a user with an empty hash was imported.
C20_Witness ==
    /\ Ocioso("importar_json")
    /\ call.ok
    /\ \E u \in Rango(Entradas(call.datos, "usuarios")) : u.password_hash = Null
    /\ \E u \in Rango(Entradas(call.datos, "usuarios")) : u.password_hash = ""
    /\ \E u \in Rango(Entradas(call.datos, "usuarios")) :
          u.password_hash \notin {Null, ""}

\* The session caches hold what the store t contains: the three cached
\* tables and, when a month is loaded, its grid.
CachesAlDia(ss, t) ==
    /\ ss.empleados_df = get_empleados(t)
    /\ ss.codigos_turno = get_codigos_turno(t)
    /\ ss.configuracion = get_configuracion(t)
    /\ ss.malla_actual # << >> =>
          ss.malla_actual = get_malla_turnos(t, ss.mes_actual, ss.ano_actual)

\* C21: after a successful restaurar_backup the cached employees, shift
\* codes, configuration and the loaded month of the session equal what the
\* restored store contains.
C21_CachesRecargadas ==
    (Ocioso("restaurar_backup") /\ call.ok) => CachesAlDia(session, db.tablas)

\* C22: when a session is initialised right after
\* guardar_malla_turnos_con_backup has committed assignments, every
\* assignment row of the store is still in the store afterwards.
C22_GuardadoPermanece ==
    [][ ( /\ Ocioso("guardar_malla_con_backup")
          /\ call.resultado > 0
          /\ call'.op = "inicializar" )
        => db.tablas.malla_turnos \subseteq db'.tablas.malla_turnos ]_vars

\* C23: the snapshot a crear_backup_automatico call has just written is
\* still in the backup directory when the call returns: its rotation never
\* deletes it.
C23_RecienEscritoPermanece ==
    (Ocioso("crear_backup") /\ call.backup_file # 0) =>
        \E b \in backups :
            b.name = call.backup_file /\ b.tablas = call.pre.tablas

\* C24: when a statement of guardar_malla_turnos raises after upserts of
\* the call were executed, the call returns 0 and the store is as it was
\* before the call: none of its upserts is visible.
C24_TodoONadaAlGuardar ==
    Ocioso("guardar_malla_except") =>
        /\ call.resultado = 0
        /\ db.tablas = call.pre.tablas

\* C24 witness: the call failed at its second row after the upserts of its
\* first row, which would have changed the assignments, were executed.
C24_Witness ==
    /\ Ocioso("guardar_malla_except")
    /\ call.i = 2
    /\ GuardarFilas(call.pre.tablas, call.pre.tablas.malla_turnos,
                    SubSeq(call.df, 1, 1), 1, call.mes, call.ano)
          # call.pre.tablas.malla_turnos

\* The ids of the employees the rows of a grid name.
EmpleadosDelGrid(t, df) ==
    { IdPorCedula(t, df[i].CC) : i \in 1..Len(df) } \ {0}

\* The tables despues differ from antes only in assignment rows of
\* (mes, ano) that belong to employees named in df.
SoloElMesDelGrid(antes, despues, df, mes, ano) ==
    /\ despues.empleados = antes.empleados
    /\ despues.codigos_turno = antes.codigos_turno
    /\ despues.usuarios = antes.usuarios
    /\ despues.configuracion = antes.configuracion
    /\ \A r \in antes.malla_turnos \cup despues.malla_turnos :
          ( r.mes # mes \/ r.ano # ano
            \/ r.empleado_id \notin EmpleadosDelGrid(antes, df) )
          => (r \in antes.malla_turnos /\ r \in despues.malla_turnos)

\* C25: guardar_malla_turnos(df, mes, ano), of malla.py and of database.py,
\* changes only assignment rows of (mes, ano) of employees named in df;
\* the assignments of other months, years and employees, and the
\* employees, shift codes, users and configuration are unchanged.
C25_SoloCambiaElMes ==
    Ocioso("guardar_malla") =>
        /\ SoloElMesDelGrid(call.pre.tablas, db.tablas, call.df, call.mes, call.ano)
        /\ SoloElMesDelGrid(call.pre.tablas,
                            db_guardar_malla_turnos(call.pre.tablas, call.df,
                                                    call.mes, call.ano),
                            call.df, call.mes, call.ano)

\* C25 witness: a save changed the assignments while the store held a row
\* of another month and a row of the saved month of an employee the grid
\* does not name.
C25_Witness ==
    /\ Ocioso("guardar_malla")
    /\ db.tablas.malla_turnos # call.pre.tablas.malla_turnos
    /\ \E r \in call.pre.tablas.malla_turnos : r.mes # call.mes
    /\ \E r \in call.pre.tablas.malla_turnos :
          /\ r.mes = call.mes /\ r.ano = call.ano
          /\ r.empleado_id \in { e.id : e \in call.pre.tablas.empleados }
          /\ r.empleado_id \notin EmpleadosDelGrid(call.pre.tablas, call.df)

\* The tables the export carries and the import writes.
TablasExportadas(t) ==
    [ empleados |-> t.empleados, codigos_turno |-> t.codigos_turno,
      usuarios |-> t.usuarios, malla_turnos |-> t.malla_turnos ]

\* C26: importar_backup_json of the document exportar_backup_json has just
\* produced succeeds and leaves the employees (ids included), shift codes,
\* users (password hashes included) and assignments as they were.
C26_ExportarImportar ==
    ( /\ Ocioso("importar_json")
      /\ call.datos = exportar_backup_json(call.pre.tablas) )
    => /\ call.ok
       /\ TablasExportadas(db.tablas) = TablasExportadas(call.pre.tablas)

\* C26 witness: the export of a store with employees, users and
\* assignments with and without a code was imported.
C26_Witness ==
    /\ Ocioso("importar_json")
    /\ call.datos = exportar_backup_json(call.pre.tablas)
    /\ call.ok
    /\ call.pre.tablas.empleados # {}
    /\ call.pre.tablas.usuarios # {}
    /\ \E r \in call.pre.tablas.malla_turnos : r.codigo_turno = Null
    /\ \E r \in call.pre.tablas.malla_turnos : r.codigo_turno # Null

\* C27: the page a run of main dispatches is one of the pages of the role
\* of the session (config, usuarios, backup and info_sistema only for
\* admin), and the dispatch does not fail, whatever role the usuarios
\* table holds for the user.
C27_PaginaDelRol ==
    Ocioso("main") =>
        /\ ~call.error
        /\ call.pagina \in Rango(paginas_disponibles(session.auth.role))
        /\ call.pagina \in {"config", "usuarios", "backup", "info_sistema"}
              => session.auth.role = "admin"

\* Somebody is logged in in the session.
Autenticada(ss) == ss.app_initialized /\ ss.auth.is_authenticated

\* After logout nobody is logged in, no employee is associated and no
\* permission is granted; in every session a permission is granted exactly
\* when somebody is logged in and the permission is one of the role.
SesionYPermisos ==
    /\ Ocioso("logout") =>
          /\ ~Autenticada(session)
          /\ session.empleado_actual = << >>
          /\ \A p \in Permisos : ~check_permission(session, p)
    /\ session.app_initialized =>
          \A p \in Permisos :
              check_permission(session, p)
                <=> (Autenticada(session) /\ p \in PermisosDeRol(session.auth.role))

\* A session becomes authenticated only by a login whose password hashes
\* to the stored hash of the username, and as that user with its role.
SoloPorLogin ==
    [][ (Autenticada(session') /\ ~Autenticada(session)) =>
          /\ call'.op = "login"
          /\ \E u \in db.tablas.usuarios :
                /\ u.username = call'.username
                /\ u.password_hash = Sha256(call'.password)
                /\ session'.auth.username = u.username
                /\ session'.auth.role = u.role ]_vars

\* C28: the session is authenticated only after a login whose password
\* hashes to the stored hash of that username; after logout it is
\* unauthenticated, the associated employee is cleared and
\* check_permission is false for every permission until the next
\* successful login; while authenticated check_permission(p) is true
\* exactly when p is a permission of the role of the session.
C28_Autenticacion == []SesionYPermisos /\ SoloPorLogin

\* C28 witness: a user who logged in with the right password and was
\* associated with an employee has logged out.
C28_Witness ==
    /\ Ocioso("logout")
    /\ call.antes.auth.is_authenticated
    /\ call.antes.empleado_actual # << >>
    /\ \E p \in Permisos : check_permission(call.antes, p)

\* C29: after any interleaving of add-employee submissions from several
\* sessions, the numero values of the employees in the store are pairwise
\* distinct.
C29_NumerosDistintos ==
    (Ocioso("agregar_empleado") /\ call.ok) =>
        \A e1 \in db.tablas.empleados : \A e2 \in db.tablas.empleados :
            e1.numero = e2.numero => e1 = e2

\* C30: every call of registrar_log, of malla.py or of database.py, leaves
\* exactly one more committed row in the logs table than there was before
\* the call.
C30_UnaFilaPorLlamada ==
    /\ Ocioso("cargar_malla") => db.tablas.logs = call.pre.tablas.logs + 1
    /\ Ocioso("database_registrar_log") =>
          db.tablas.logs = call.pre.tablas.logs + 1

\* C5: once a crear_backup_automatico call has returned a snapshot, the
\* directory holds at most max_backups snapshots, exactly max_backups when
\* more than that were there, and they are the most recently created ones
\* (names are creation times).
C5_RotacionRecientes ==
    (Ocioso("crear_backup") /\ call.backup_file # 0) =>
        LET n      == MaxBackupsDe(session)
            todos  == { b.name : b \in call.antes } \cup { call.backup_file }
            quedan == { b.name : b \in backups }
        IN  /\ Cardinality(quedan) = IF Cardinality(todos) > n
                                     THEN n ELSE Cardinality(todos)
            /\ quedan \subseteq todos
            /\ \A k \in quedan : \A d \in todos \ quedan : k > d

\* C6: restaurar_backup of an existing snapshot writes the rescue copy of
\* the live store before it overwrites the live store; after it returns
\* success the content of the live store (every table) equals the chosen
\* snapshot and the rescue copy holds the file as it was before the call.
C6_ContenidoIgualAlBackup ==
    /\ (pc = "restaurar_copia" /\ call.pre.exists) =>
          /\ db = call.pre
          /\ \E r \in rescues :
                r.name = now /\ r.tablas = db.tablas /\ r.mtime = db.mtime
    /\ (Ocioso("restaurar_backup") /\ call.ok) =>
          /\ \E b \in backups :
                b.name = call.backup_file /\ db.tablas = b.tablas
          /\ call.pre.exists =>
                \E r \in rescues :
                   r.name = now /\ r.tablas = call.pre.tablas
                   /\ r.mtime = call.pre.mtime

\* C6 as the code has it: the rescue copy is written before the live store
\* is overwritten; after success the entity tables of the live store are
\* those of the chosen snapshot, the logs table holds the rows of the
\* snapshot and the row restaurar_backup registers for itself, and the
\* rescue copy holds the file as it was before the call.
C6_RescateAntesDeCopiar ==
    /\ (pc = "restaurar_copia" /\ call.pre.exists) =>
          /\ db = call.pre
          /\ \E r \in rescues :
                r.name = now /\ r.tablas = db.tablas /\ r.mtime = db.mtime
    /\ (Ocioso("restaurar_backup") /\ call.ok) =>
          /\ \E b \in backups :
                /\ b.name = call.backup_file
                /\ Entidades(db.tablas) = Entidades(b.tablas)
                /\ db.tablas.logs = b.tablas.logs + 1
          /\ call.pre.exists =>
                \E r \in rescues :
                   r.name = now /\ r.tablas = call.pre.tablas
                   /\ r.mtime = call.pre.mtime

\* C6 witness: a restore succeeded on a live store that differed from the
\* chosen snapshot.
C6_Witness ==
    /\ Ocioso("restaurar_backup")
    /\ call.ok
    /\ Entidades(call.pre.tablas) # Entidades(db.tablas)

\* C7: restaurar_backup of a snapshot that does not exist returns False and
\* leaves the live store as it was.
C7_BackupInexistente ==
    (Ocioso("restaurar_backup")
        /\ \A b \in backups : b.name # call.backup_file) =>
        /\ ~call.ok
        /\ db = call.pre

\* C7 witness: a restore of a missing snapshot has returned.
C7_Witness ==
    /\ Ocioso("restaurar_backup")
    /\ ~call.ok
    /\ call.pre.exists
    /\ call.pre.tablas.malla_turnos # {}

\* C8: a failing importar_backup_json leaves empleados, codigos_turno,
\* usuarios and malla_turnos as they were before the call, and while the
\* import runs the committed tables are still the old ones.
C8_TodoONada ==
    /\ pc = "importar_tablas" => db = call.pre
    /\ (Ocioso("importar_json") /\ ~call.ok) => db.tablas = call.pre.tablas

\* C8 witness: an import failed at an INSERT after the tables had been
\* emptied and earlier INSERTs had run, on a store that held assignments.
C8_Witness ==
    /\ Ocioso("importar_json")
    /\ ~call.ok
    /\ call.datos = DocSinRol
    /\ call.pre.tablas.malla_turnos # {}

\* C9: after a successful importar_backup_json every entity table holds
\* exactly the entries of the document, configuracion included.
C9_ReemplazoCompleto ==
    (Ocioso("importar_json") /\ call.ok) =>
        /\ db.tablas.empleados = Rango(Entradas(call.datos, "empleados"))
        /\ db.tablas.codigos_turno = Rango(Entradas(call.datos, "codigos_turno"))
        /\ db.tablas.usuarios
             = { UsuarioImportado(u) : u \in Rango(Entradas(call.datos, "usuarios")) }
        /\ db.tablas.malla_turnos = Rango(Entradas(call.datos, "malla_turnos"))
        /\ "configuracion" \in call.datos.llaves =>
              db.tablas.configuracion = call.datos.configuracion

\* C10: while importar_backup_json modifies the tables, and when it has
\* committed, a snapshot holding the store as it was before the import is in
\* the backup directory.
C10_BackupAntesDeImportar ==
    (pc = "importar_tablas" \/ (Ocioso("importar_json") /\ call.ok)) =>
        \E b \in backups :
            b.tablas = call.pre.tablas /\ b.mtime = call.pre.mtime

\* C10 witness: an import has replaced the tables of a store that held
\* assignments.
C10_Witness ==
    /\ Ocioso("importar_json")
    /\ call.ok
    /\ call.pre.tablas.malla_turnos # {}
    /\ db.tablas.malla_turnos # call.pre.tablas.malla_turnos

====
